---- MODULE Spec2Model ----
(***************************************************************************)
(* A model of ospl::NurbsCurve<nd, T> (openspline/nurbs_curve.h): the      *)
(* curve object's fields, its two constructors, the clamp/unclamp          *)
(* bookkeeping, the setters and the point / derivative / tangent queries.  *)
(* Vectors are modelled for nd = 2.  Sequences are 1-based here and        *)
(* 0-based in the source: knots_[0] is Head(knots_).                       *)
(***************************************************************************)
EXTENDS Integers, Sequences, FiniteSets, TLC

\* ---------------------------------------------------------------- bounds
MaxDeg == 2
MaxCP == 2

\* ---------------------------------------------------------------- inputs
KnotVals == {0, 1}
Points == {<<0, 0>>, <<1, 2>>}
WeightVals == {1, 2}
Degrees == 0 .. MaxDeg
MaxKnotLen == MaxDeg + MaxCP + 1

SeqsUpTo(S, n) == UNION {[1 .. k -> S] : k \in 0 .. n}

NonDecreasing(s) == \A i \in 1 .. Len(s) - 1 : s[i] <= s[i + 1]

KnotSeqs == {s \in SeqsUpTo(KnotVals, MaxKnotLen) : NonDecreasing(s)}
PointSeqs == SeqsUpTo(Points, MaxCP)
WeightSeqs(n) == {[i \in 1 .. n |-> w] : w \in WeightVals}

\* n copies of x: the (count, value) argument pair of std::vector::insert
Copies(n, x) == [i \in 1 .. n |-> x]

\* ----------------------------------------------------------------- state
VARIABLES
    status,      \* "none": not constructed; "ok": a live curve; "failed": the
                 \* constructor threw; "undefined": undefined behaviour ran
    deg_, knots_, cp_, w_, isRat_, isClamp0_, isClamp1_, isClosed_,
    built,       \* which constructor built the object
    lastOp,      \* the last member function called
    args,        \* the arguments of that call
    pre,         \* the object before that call
    result       \* what the last query returned

vars == <<status, deg_, knots_, cp_, w_, isRat_, isClamp0_, isClamp1_,
          isClosed_, built, lastOp, args, pre, result>>

\* The object as a record
Self ==
    [status |-> status, deg_ |-> deg_, knots_ |-> knots_, cp_ |-> cp_,
     w_ |-> w_, isRat_ |-> isRat_, isClamp0_ |-> isClamp0_,
     isClamp1_ |-> isClamp1_, isClosed_ |-> isClosed_]

\* The storage of an object whose constructor body has not run yet: the
\* vectors are default-constructed (empty); the scalar members have no
\* initializer and hold indeterminate values.
Uninitialized ==
    [status : {"none"}, deg_ : Degrees, knots_ : {<<>>}, cp_ : {<<>>},
     w_ : {<<>>}, isRat_ : BOOLEAN, isClamp0_ : BOOLEAN,
     isClamp1_ : BOOLEAN, isClosed_ : BOOLEAN]

Blank ==
    [status |-> "none", deg_ |-> 0, knots_ |-> <<>>, cp_ |-> <<>>,
     w_ |-> <<>>, isRat_ |-> FALSE, isClamp0_ |-> FALSE,
     isClamp1_ |-> FALSE, isClosed_ |-> FALSE]

NoArgs == <<>>
NoResult == [kind |-> "none"]

\* An exception left the constructor: there is no object
Thrown == [Blank EXCEPT !.status = "failed"]

\* Undefined behaviour ran: nothing about the object is defined any more
Undefined(c) == [c EXCEPT !.status = "undefined"]

Install(c) ==
    /\ status' = c.status
    /\ deg_' = c.deg_
    /\ knots_' = c.knots_
    /\ cp_' = c.cp_
    /\ w_' = c.w_
    /\ isRat_' = c.isRat_
    /\ isClamp0_' = c.isClamp0_
    /\ isClamp1_' = c.isClamp1_
    /\ isClosed_' = c.isClosed_

Called(op, a) ==
    /\ lastOp' = op
    /\ args' = a
    /\ pre' = Self

\* ---------------------------------------------------------- construction
isValidRelation(degree, nKnots, nCtrlPts) == nKnots = degree + nCtrlPts + 1

\* NurbsCurve(degree, knots, controlPoints) run on the storage self
CtorKnotsPoints(self, degree, knots, controlPoints) ==
    IF ~isValidRelation(degree, Len(knots), Len(controlPoints))
    THEN Thrown
    ELSE [self EXCEPT !.status = "ok", !.deg_ = degree, !.knots_ = knots,
                      !.cp_ = controlPoints, !.isRat_ = FALSE,
                      !.isClamp0_ = FALSE, !.isClamp1_ = FALSE]

WeightsCtorUnchecked(self, tmp, degree, knots, controlPoints, weights) ==
    [self EXCEPT !.status = "ok", !.w_ = weights, !.isRat_ = TRUE]

\* NurbsCurve(degree, knots, controlPoints, weights) run on the storage self.
\* Its first statement constructs a temporary curve in the storage tmp and
\* discards it; only an exception thrown by the temporary reaches self.
CtorKnotsPointsWeights(self, tmp, degree, knots, controlPoints, weights) ==
    LET temporary == CtorKnotsPoints(tmp, degree, knots, controlPoints)
    IN  IF temporary.status = "failed"
        THEN Thrown
        ELSE [self EXCEPT !.status = "ok", !.w_ = weights, !.isRat_ = TRUE]

Construct3 ==
    /\ status = "none"
    /\ \E self \in Uninitialized, degree \in Degrees, knots \in KnotSeqs,
          controlPoints \in PointSeqs :
          /\ Install(CtorKnotsPoints(self, degree, knots, controlPoints))
          /\ Called("NurbsCurve",
                    [degree |-> degree, knots |-> knots,
                     controlPoints |-> controlPoints])
    /\ built' = "knotsPoints"
    /\ UNCHANGED result

Construct4 ==
    /\ status = "none"
    /\ \E self \in Uninitialized, degree \in Degrees, knots \in KnotSeqs,
          controlPoints \in PointSeqs :
          \E weights \in WeightSeqs(Len(controlPoints)) :
             /\ Install(CtorKnotsPointsWeights(self, self, degree, knots,
                                               controlPoints, weights))
             /\ Called("NurbsCurveWeights",
                       [degree |-> degree, knots |-> knots,
                        controlPoints |-> controlPoints,
                        weights |-> weights])
    /\ built' = "knotsPointsWeights"
    /\ UNCHANGED result

\* ------------------------------------------------------- clamp / unclamp
\* Each operation maps a curve to the set of curves the call can leave.
ClampStartNoFlag(c) ==
    IF c.isClamp0_ THEN {c}
    ELSE IF c.knots_ = <<>>
         THEN {Undefined(c)} \cup
              {[c EXCEPT !.knots_ = Copies(c.deg_, g)] : g \in KnotVals}
         ELSE {[c EXCEPT !.knots_ = Copies(c.deg_, Head(c.knots_)) \o @]}

clampStartOf(c) ==
    IF c.isClamp0_ THEN {c}
    ELSE IF c.knots_ = <<>>
         \* knots_[0] of an empty vector
         THEN {Undefined(c)} \cup
              {[c EXCEPT !.knots_ = Copies(c.deg_, g), !.isClamp0_ = TRUE] :
                  g \in KnotVals}
         ELSE {[c EXCEPT !.knots_ = Copies(c.deg_, Head(c.knots_)) \o @,
                         !.isClamp0_ = TRUE]}

UnclampStartFromEnd(c) ==
    IF ~c.isClamp0_ THEN {c}
    ELSE IF c.deg_ > Len(c.knots_) THEN {Undefined(c)}
    ELSE {[c EXCEPT !.knots_ = SubSeq(@, 1, Len(@) - c.deg_),
                    !.isClamp0_ = FALSE]}

unclampStartOf(c) ==
    IF ~c.isClamp0_ THEN {c}
    \* erase of a range that ends past end()
    ELSE IF c.deg_ > Len(c.knots_) THEN {Undefined(c)}
    ELSE {[c EXCEPT !.knots_ = SubSeq(@, c.deg_ + 1, Len(@)),
                    !.isClamp0_ = FALSE]}

ClampEndOneMore(c) ==
    IF c.isClamp1_ THEN {c}
    ELSE IF c.knots_ = <<>>
         THEN {Undefined(c)} \cup
              {[c EXCEPT !.knots_ = Copies(c.deg_ + 1, g),
                         !.isClamp1_ = TRUE] : g \in KnotVals}
         ELSE {[c EXCEPT !.knots_ =
                           @ \o Copies(c.deg_ + 1, c.knots_[Len(c.knots_)]),
                         !.isClamp1_ = TRUE]}

clampEndOf(c) ==
    IF c.isClamp1_ THEN {c}
    ELSE IF c.knots_ = <<>>
         \* knots_[knots_.size() - 1] of an empty vector
         THEN {Undefined(c)} \cup
              {[c EXCEPT !.knots_ = Copies(c.deg_, g), !.isClamp1_ = TRUE] :
                  g \in KnotVals}
         ELSE {[c EXCEPT !.knots_ =
                           @ \o Copies(c.deg_, c.knots_[Len(c.knots_)]),
                         !.isClamp1_ = TRUE]}

unclampEndOf(c) ==
    IF ~c.isClamp1_ THEN {c}
    \* erase of a range that starts before begin()
    ELSE IF c.deg_ > Len(c.knots_) THEN {Undefined(c)}
    ELSE {[c EXCEPT !.knots_ = SubSeq(@, 1, Len(@) - c.deg_),
                    !.isClamp1_ = FALSE]}

clampStart ==
    /\ status = "ok"
    /\ \E c \in clampStartOf(Self) : Install(c)
    /\ Called("clampStart", NoArgs)
    /\ UNCHANGED <<built, result>>

unclampStart ==
    /\ status = "ok"
    /\ \E c \in unclampStartOf(Self) : Install(c)
    /\ Called("unclampStart", NoArgs)
    /\ UNCHANGED <<built, result>>

clampEnd ==
    /\ status = "ok"
    /\ \E c \in clampEndOf(Self) : Install(c)
    /\ Called("clampEnd", NoArgs)
    /\ UNCHANGED <<built, result>>

unclampEnd ==
    /\ status = "ok"
    /\ \E c \in unclampEndOf(Self) : Install(c)
    /\ Called("unclampEnd", NoArgs)
    /\ UNCHANGED <<built, result>>

\* ---------------------------------------------------------------- setters
\* cp_[i] = pt, for an index i of cp_ (0-based i, 1-based here)
setControlPointOf(c, i, pt) == [c EXCEPT !.cp_[i + 1] = pt]

setControlPoint ==
    /\ status = "ok"
    /\ \E i \in 0 .. Len(cp_) - 1, pt \in Points :
          /\ Install(setControlPointOf(Self, i, pt))
          /\ Called("setControlPoint", [i |-> i, pt |-> pt])
    /\ UNCHANGED <<built, result>>

\* controlPoint(i) and numControlPoints()
controlPointOf(c, i) == c.cp_[i + 1]
numControlPointsOf(c) == Len(c.cp_)

setRationalOf(c, isRational) == [c EXCEPT !.isRat_ = isRational]

setRational ==
    /\ status = "ok"
    /\ \E isRational \in BOOLEAN :
          /\ Install(setRationalOf(Self, isRational))
          /\ Called("setRational", [isRational |-> isRational])
    /\ UNCHANGED <<built, result>>

\* both branches of setClosed are empty
setClosedOf(c, flag) == c

setClosed ==
    /\ status = "ok"
    /\ \E flag \in BOOLEAN :
          /\ Install(setClosedOf(Self, flag))
          /\ Called("setClosed", [flag |-> flag])
    /\ UNCHANGED <<built, result>>

\* ------------------------------------------------------------ arithmetic
\* Reals are exact rationals <<numerator, denominator>>, denominator > 0,
\* in lowest terms.
Abs(x) == IF x < 0 THEN -x ELSE x

RECURSIVE GCD(_, _)
GCD(a, b) == IF b = 0 THEN a ELSE GCD(b, a % b)

Rat(n, d) ==
    LET g == GCD(Abs(n), Abs(d))
        sgn == IF d < 0 THEN -1 ELSE 1
    IN  <<(sgn * n) \div g, (sgn * d) \div g>>

RInt(k) == <<k, 1>>
RZero == RInt(0)
ROne == RInt(1)
RAdd(a, b) == Rat(a[1] * b[2] + b[1] * a[2], a[2] * b[2])
RSub(a, b) == Rat(a[1] * b[2] - b[1] * a[2], a[2] * b[2])
RMul(a, b) == Rat(a[1] * b[1], a[2] * b[2])
RDiv(a, b) == Rat(a[1] * b[2], a[2] * b[1])
RLeq(a, b) == a[1] * b[2] <= b[1] * a[2]

\* glm::vec<2, T>
VZero == <<RZero, RZero>>
VOf(pt) == <<RInt(pt[1]), RInt(pt[2])>>
VAdd(v, w) == <<RAdd(v[1], w[1]), RAdd(v[2], w[2])>>
VScale(r, v) == <<RMul(r, v[1]), RMul(r, v[2])>>
VDot(v, w) == RAdd(RMul(v[1], w[1]), RMul(v[2], w[2]))

\* glm::normalize(v) = v * inversesqrt(dot(v, v)).  The square root is kept
\* symbolic: the result stands for v * inversesqrt(of).  inversesqrt(0) is
\* +inf and 0 * inf is NaN, so the zero vector normalizes to a NaN vector.
normalize(v) ==
    IF VDot(v, v) = RZero
    THEN [nan |-> TRUE, v |-> v, of |-> RZero]
    ELSE [nan |-> FALSE, v |-> v, of |-> VDot(v, v)]

\* the squared length of a normalized vector that is not NaN
SqLength(t) == RDiv(VDot(t.v, t.v), t.of)

\* ------------------------------------------------------------- evaluator
\* U is the knot vector, 0-based as in the source
Knot(U, i) == RInt(U[i + 1])

\* the knot span holding u; u at or past the right end of the domain takes
\* the last span, u at or before the left end the first
findSpan(u, p, U) ==
    LET n == Len(U) - p - 2
    IN  IF RLeq(Knot(U, n + 1), u) THEN n
        ELSE IF RLeq(u, Knot(U, p)) THEN p
        ELSE CHOOSE i \in p .. n :
                /\ RLeq(Knot(U, i), u)
                /\ ~RLeq(Knot(U, i + 1), u)

\* a quotient whose denominator may vanish at repeated knots: 0/0 is 0
Quot(num, den) == IF den = RZero THEN RZero ELSE RDiv(num, den)

\* the k-th derivative at u of the basis function N(i, q), by the Cox - de
\* Boor recurrence seeded with N(span, 0) = 1
RECURSIVE basisDer(_, _, _, _, _, _)
basisDer(k, i, q, u, U, span) ==
    IF q = 0 THEN (IF k = 0 /\ i = span THEN ROne ELSE RZero)
    ELSE
        LET dl == RSub(Knot(U, i + q), Knot(U, i))
            dr == RSub(Knot(U, i + q + 1), Knot(U, i + 1))
        IN  IF k = 0
            THEN RAdd(RMul(Quot(RSub(u, Knot(U, i)), dl),
                           basisDer(0, i, q - 1, u, U, span)),
                      RMul(Quot(RSub(Knot(U, i + q + 1), u), dr),
                           basisDer(0, i + 1, q - 1, u, U, span)))
            ELSE RMul(RInt(q),
                      RSub(Quot(basisDer(k - 1, i, q - 1, u, U, span), dl),
                           Quot(basisDer(k - 1, i + 1, q - 1, u, U, span),
                                dr)))

\* the terms j .. degree of the weighted sum over the span's control points
RECURSIVE spanSum(_, _, _, _, _, _, _)
spanSum(j, k, u, degree, U, P, span) ==
    IF j > degree THEN VZero
    ELSE VAdd(VScale(basisDer(k, span - degree + j, degree, u, U, span),
                     VOf(P[span - degree + j + 1])),
              spanSum(j + 1, k, u, degree, U, P, span))

\* the k-th derivative of the curve: the sum over the degree + 1 control
\* points of the span
curveDer(k, u, degree, U, P) ==
    spanSum(0, k, u, degree, U, P, findSpan(u, degree, U))

nurbsCurvePoint(u, degree, U, P) == curveDer(0, u, degree, U, P)

nurbsCurveDerivatives(u, degree, U, P, nDers) ==
    [k \in 1 .. nDers + 1 |-> curveDer(k - 1, u, degree, U, P)]

\* the data the evaluator can index: a knot per basis function and degree + 1
\* control points under every span
EvalDefined(c) ==
    /\ Len(c.knots_) = c.deg_ + Len(c.cp_) + 1
    /\ Len(c.cp_) >= c.deg_ + 1

\* ---------------------------------------------------------------- queries
\* Each query maps a curve to the set of <<curve, result>> pairs the call
\* can leave.
Returned(c, kind, value) == <<c, [kind |-> kind, value |-> value]>>
Crashed(c) == <<Undefined(c), NoResult>>

\* point(u).  The rational evaluator reads w_ next to cp_: w_ is filled only
\* by the constructor that leaves knots_ and cp_ empty, so on a rational
\* curve it always indexes past the end of a vector.
pointOf(c, u) ==
    IF ~c.isRat_
    THEN IF EvalDefined(c)
         THEN {Returned(c, "point",
                        nurbsCurvePoint(u, c.deg_, c.knots_, c.cp_))}
         ELSE {Crashed(c)} \cup {Returned(c, "point", VOf(g)) : g \in Points}
    ELSE {Crashed(c)} \cup {Returned(c, "point", VOf(g)) : g \in Points}

\* pointAndDerivatives(u, nDers, ptder): ptder is the caller's vector
pointAndDerivativesOf(c, u, nDers, ptder) ==
    IF ~c.isRat_
    THEN IF EvalDefined(c)
         THEN {Returned(c, "ders",
                        nurbsCurveDerivatives(u, c.deg_, c.knots_, c.cp_,
                                              nDers))}
         ELSE {Crashed(c)} \cup
              {Returned(c, "ders", [k \in 1 .. nDers + 1 |-> VOf(g)]) :
                  g \in Points}
    ELSE {Returned(c, "ders", ptder)}

\* tangent(u): normalize(ders[1]) of a vector that starts empty
tangentOf(c, u) ==
    UNION {IF d[1].status # "ok" THEN {d}
           ELSE IF Len(d[2].value) < 2
                THEN {Crashed(c)} \cup
                     {Returned(c, "tangent", normalize(VOf(g))) :
                         g \in Points}
                ELSE {Returned(c, "tangent", normalize(d[2].value[2]))} :
           d \in pointAndDerivativesOf(c, u, 1, <<>>)}

UVals == {<<0, 1>>, <<1, 2>>, <<1, 1>>}
MaxDers == 2
PtderVals == {<<>>, <<VZero>>}

point ==
    /\ status = "ok"
    /\ \E u \in UVals :
          \E o \in pointOf(Self, u) :
             /\ Install(o[1])
             /\ result' = o[2]
             /\ Called("point", [u |-> u])
    /\ UNCHANGED built

pointAndDerivatives ==
    /\ status = "ok"
    /\ \E u \in UVals, nDers \in 0 .. MaxDers, ptder \in PtderVals :
          \E o \in pointAndDerivativesOf(Self, u, nDers, ptder) :
             /\ Install(o[1])
             /\ result' = o[2]
             /\ Called("pointAndDerivatives",
                       [u |-> u, nDers |-> nDers, ptder |-> ptder])
    /\ UNCHANGED built

tangent ==
    /\ status = "ok"
    /\ \E u \in UVals :
          \E o \in tangentOf(Self, u) :
             /\ Install(o[1])
             /\ result' = o[2]
             /\ Called("tangent", [u |-> u])
    /\ UNCHANGED built

\* ---------------------------------------------------------- specification
Init ==
    /\ status = "none"
    /\ deg_ = Blank.deg_
    /\ knots_ = Blank.knots_
    /\ cp_ = Blank.cp_
    /\ w_ = Blank.w_
    /\ isRat_ = Blank.isRat_
    /\ isClamp0_ = Blank.isClamp0_
    /\ isClamp1_ = Blank.isClamp1_
    /\ isClosed_ = Blank.isClosed_
    /\ built = "none"
    /\ args = NoArgs
    /\ lastOp = "none"
    /\ pre = Blank
    /\ result = NoResult

Next ==
    \/ Construct3
    \/ Construct4
    \/ clampStart
    \/ unclampStart
    \/ clampEnd
    \/ unclampEnd
    \/ setControlPoint
    \/ setRational
    \/ setClosed

Spec == Init /\ [][Next]_vars

\* The queries leave the curve as it is: they are checked on every curve
\* the constructors and setRational produce.
NextEval ==
    \/ Construct3
    \/ Construct4
    \/ setRational
    \/ point
    \/ pointAndDerivatives
    \/ tangent

SpecEval == Init /\ [][NextEval]_vars

\* ------------------------------------------------------------ properties
Constructors == {"NurbsCurve", "NurbsCurveWeights"}

Bit(b) == IF b THEN 1 ELSE 0

\* the result values of a set of query outcomes
Values(outcomes) == {o[2] : o \in outcomes}

\* C1: a constructor call, with or without weights, throws exactly when
\* knots.length # degree + controlPoints.length + 1, and a call that throws
\* leaves no curve.
C1_ConstructionValidation ==
    lastOp \in Constructors =>
        LET valid == Len(args.knots) =
                         args.degree + Len(args.controlPoints) + 1
        IN  /\ valid => status = "ok"
            /\ ~valid => status = "failed" /\ Self = Thrown

C1_Witness ==
    /\ lastOp = "NurbsCurveWeights"
    /\ status = "failed"
    /\ Len(args.knots) > args.degree + Len(args.controlPoints) + 1

C3_KnotCountInvariant ==
    status = "ok" => Len(knots_) = deg_ + Len(cp_) + 1

\* C4: calling clampStart, unclampStart, clampEnd or unclampEnd a second
\* time in a row leaves the curve exactly as the first call left it.
C4_ClampIdempotent ==
    /\ (lastOp = "clampStart" /\ status = "ok") =>
          \A s \in clampStartOf(Self) : s = Self
    /\ (lastOp = "unclampStart" /\ status = "ok") =>
          \A s \in unclampStartOf(Self) : s = Self
    /\ (lastOp = "clampEnd" /\ status = "ok") =>
          \A s \in clampEndOf(Self) : s = Self
    /\ (lastOp = "unclampEnd" /\ status = "ok") =>
          \A s \in unclampEndOf(Self) : s = Self

C4_Witness ==
    /\ lastOp = "clampStart"
    /\ status = "ok"
    /\ ~pre.isClamp0_
    /\ deg_ = 2
    /\ knots_ # pre.knots_

\* C5: after a successful construction with weights the curve holds the
\* degree, knots and control points it was given and is rational.
C5_WeightsCtorOwnsArguments ==
    (lastOp = "NurbsCurveWeights" /\ status = "ok") =>
        /\ numControlPointsOf(Self) = Len(args.controlPoints)
        /\ \A i \in 0 .. Len(args.controlPoints) - 1 :
              controlPointOf(Self, i) = args.controlPoints[i + 1]
        /\ deg_ = args.degree
        /\ knots_ = args.knots
        /\ isRat_

\* C6: pointAndDerivatives(u, order) delivers exactly order + 1 vectors, for
\* rational and non-rational curves alike.
C6_DerivativeShape ==
    (lastOp = "pointAndDerivatives" /\ (pre.isRat_ \/ EvalDefined(pre))) =>
        /\ status = "ok"
        /\ result.kind = "ders"
        /\ Len(result.value) = args.nDers + 1

\* C7: tangent(u) reports an error when the first derivative at u is the
\* zero vector, and every vector it returns has unit length.
C7_DegenerateTangentReported ==
    (lastOp = "tangent" /\ ~pre.isRat_ /\ EvalDefined(pre)) =>
        LET d == nurbsCurveDerivatives(args.u, pre.deg_, pre.knots_,
                                       pre.cp_, 1)[2]
        IN  /\ d = VZero => result.kind = "error"
            /\ result.kind = "tangent" =>
                  ~result.value.nan /\ SqLength(result.value) = ROne

\* C8: a curve constructed with every weight equal to 1 answers point,
\* pointAndDerivatives and tangent as the curve constructed without weights
\* from the same degree, knots and control points does.
C8_RationalReduction ==
    LET reference == CtorKnotsPoints(pre, args.degree, args.knots,
                                     args.controlPoints)
    IN  (/\ lastOp = "NurbsCurveWeights"
         /\ status = "ok"
         /\ \A i \in 1 .. Len(args.weights) : args.weights[i] = 1
         /\ EvalDefined(reference)) =>
            \A u \in UVals :
               /\ Values(pointOf(Self, u)) = Values(pointOf(reference, u))
               /\ \A nDers \in 0 .. MaxDers :
                     Values(pointAndDerivativesOf(Self, u, nDers, <<>>)) =
                     Values(pointAndDerivativesOf(reference, u, nDers, <<>>))
               /\ Values(tangentOf(Self, u)) = Values(tangentOf(reference, u))

\* C9: clampStart() on a curve whose start-clamp flag is false prepends
\* exactly degree copies of the old first knot, so the first degree + 1 knots
\* are equal and a non-decreasing vector stays non-decreasing, and leaves the
\* control points, degree, rational flag and end-clamp flag alone; clampEnd()
\* does the same at the tail with the old last knot.
C9_ClampRepeatsEndKnot ==
    /\ (lastOp = "clampStart" /\ ~pre.isClamp0_) =>
          /\ status = "ok"
          /\ pre.knots_ # <<>>
          /\ knots_ = Copies(pre.deg_, Head(pre.knots_)) \o pre.knots_
          /\ \A i \in 1 .. deg_ + 1 : knots_[i] = knots_[1]
          /\ NonDecreasing(pre.knots_) => NonDecreasing(knots_)
          /\ cp_ = pre.cp_ /\ deg_ = pre.deg_
          /\ isRat_ = pre.isRat_ /\ isClamp1_ = pre.isClamp1_
    /\ (lastOp = "clampEnd" /\ ~pre.isClamp1_) =>
          /\ status = "ok"
          /\ pre.knots_ # <<>>
          /\ knots_ =
                pre.knots_ \o Copies(pre.deg_, pre.knots_[Len(pre.knots_)])
          /\ \A i \in Len(knots_) - deg_ .. Len(knots_) :
                knots_[i] = knots_[Len(knots_)]
          /\ NonDecreasing(pre.knots_) => NonDecreasing(knots_)
          /\ cp_ = pre.cp_ /\ deg_ = pre.deg_
          /\ isRat_ = pre.isRat_ /\ isClamp0_ = pre.isClamp0_

\* C10: on a curve built by the constructor without weights the clamp flags
\* account for the knot vector, knots.length = degree + numControlPoints() + 1
\* + degree for each end that is clamped, and setControlPoint(i, v) changes
\* control point i and nothing else.
C10_ClampFlagsAccountForKnots ==
    (built = "knotsPoints" /\ status # "failed") =>
        /\ status = "ok"
        /\ Len(knots_) = deg_ + Len(cp_) + 1
                           + deg_ * Bit(isClamp0_) + deg_ * Bit(isClamp1_)
        /\ lastOp = "setControlPoint" =>
              /\ cp_[args.i + 1] = args.pt
              /\ Len(cp_) = Len(pre.cp_)
              /\ \A j \in 1 .. Len(cp_) :
                    j # args.i + 1 => cp_[j] = pre.cp_[j]
              /\ knots_ = pre.knots_ /\ deg_ = pre.deg_
              /\ isClamp0_ = pre.isClamp0_ /\ isClamp1_ = pre.isClamp1_

C10_Witness ==
    /\ built = "knotsPoints"
    /\ status = "ok"
    /\ lastOp = "setControlPoint"
    /\ cp_ # pre.cp_
    /\ isClamp0_ /\ ~isClamp1_
    /\ deg_ = 2
    /\ Len(cp_) = 2
====
